---- MODULE Spec2Model ----
(***************************************************************************)
(* Model of hs_dl: the segmented, concurrent HTTP downloader of            *)
(* src/hs_dl/main.py (HSDownloader) and src/hs_dl/request.py (Request).    *)
(*                                                                         *)
(* Two specifications:                                                     *)
(*   SpecPlan  the planning step of start_download and the header          *)
(*             construction of get_content as pure functions of the HEAD   *)
(*             result, with the program's own constants (32 blocks,        *)
(*             10 MiB);                                                     *)
(*   Spec      the whole run: HEAD probe with retry, planning, the         *)
(*             concurrent fetch tasks behind the shared semaphore,         *)
(*             streaming, gather/sort and save, with a scaled-down         *)
(*             configuration so that every interleaving can be explored.   *)
(***************************************************************************)
EXTENDS Integers, Sequences, FiniteSets, TLC

(***************************************************************************)
(* Program constants.                                                      *)
(***************************************************************************)
\* main.py:83  self.block_number = 32
block_number == 32

\* main.py:84 and main.py:182: the literal 10 * 1024 * 1024
TenMiB == 10 * 1024 * 1024

\* main.py:84  self.target_size = self.block_number * 10 * 1024 * 1024
target_size(bn, bb) == bn * bb

\* Python's None (main.py:194 stores it as the end of an unranged block,
\* main.py:268 builds a request without a Range header).  An integer that is
\* no byte offset, so that it can be compared with offsets.
None == -1

(***************************************************************************)
(* Bounds of the model.                                                    *)
(***************************************************************************)
\* SpecPlan: resource sizes 0..MaxPlanSize (plus the sizes around the
\* small/large threshold of the real configuration)
MaxPlanSize == 70

\* Spec: resource sizes 0..MaxSize
MaxSize == 3

\* Spec: the block count and block bytes that stand for 32 and 10 MiB
ModelBlocks == 3
ModelBlockBytes == 2

\* Spec: HSDownloader(concurrency=...), 64 by default (main.py:51)
concurrency == 2

\* Spec: Request.retrys_count, 15 by default (request.py:52)
retrys_count == 2

\* Spec: the largest number of attempts and streams that fail in one run
\* (transport failures, rejected statuses, broken streams)
MaxFaults == 2

(***************************************************************************)
(* The HEAD response headers the program reads (main.py:237, 245).         *)
(* cl: Content-Length (None when the header is missing);                   *)
(* ar: Accept-Ranges ("absent" when the header is missing).                *)
(***************************************************************************)
AcceptValues == {"absent", "bytes", "none"}

\* main.py:220  self._head_headers = {}
EmptyHeaders == [cl |-> None, ar |-> "absent"]

\* main.py:231-237  accept_ranges: the header is present, whatever its value
accept_ranges_always(h) == TRUE
accept_ranges(h) == h.ar # "absent"

\* main.py:239-245  content_length: int(headers.get('Content-Length', 0))
content_length(h) == IF h.cl = None THEN 0 ELSE h.cl

(***************************************************************************)
(* start_download, lines 176-200: the plan.                                *)
(***************************************************************************)
\* math.ceil(a / b) for a >= 0, b > 0
ceil_rounds_down(a, b) == a \div b
Ceil(a, b) == (a + b - 1) \div b

\* main.py:178-187  block_size
BlockSize(cl, ar, bn, bb) ==
    IF (~ar) \/ cl = 0 THEN 0
    ELSE IF cl <= target_size(bn, bb) THEN cl \div bn
    ELSE bb

\* main.py:178-187  block_number (the local)
BlockNumber(cl, ar, bn, bb) ==
    IF (~ar) \/ cl = 0 THEN 1
    ELSE IF cl <= target_size(bn, bb) THEN bn
    ELSE Ceil(cl, bb)

\* main.py:191-200  the loop over range(block_number); acc holds the blocks
\* 0..index-1 (acc[index] is the block with index index-1).  Len(acc) = index
\* at every call: the test only has acc computed block by block.
RECURSIVE BuildArgs(_, _, _, _, _, _)
BuildArgs(acc, index, number, size, cl, ar) ==
    IF index >= number \/ Len(acc) # index THEN acc
    ELSE LET prev == IF index = 0 THEN None ELSE acc[index].e
             s == IF index = 0 THEN index * size ELSE prev + 1
             e == IF index < number - 1 THEN s + size ELSE cl
             blk == [index |-> index, s |-> s, e |-> IF ar THEN e ELSE None]
         IN  BuildArgs(Append(acc, blk), index + 1, number, size, cl, ar)

\* main.py:176-200  args, for the configuration (bn blocks, bb block bytes)
Partition(cl, ar, bn, bb) ==
    BuildArgs(<< >>, 0, BlockNumber(cl, ar, bn, bb), BlockSize(cl, ar, bn, bb), cl, ar)

(***************************************************************************)
(* get_content, lines 265-271: the request headers and the progress total. *)
(***************************************************************************)
\* main.py:265  "if end:" -- None and 0 are both false
Truthy(end) == end # None /\ end # 0

\* main.py:268  headers = self.headers.copy(): no Range header
NoRange == << >>

\* main.py:265-268  the Range header: <<start, end>> for bytes=start-end
RangeHeader(start, end) == IF Truthy(end) THEN <<start, end>> ELSE NoRange

\* main.py:270-271  end = end or self.content_length; total = end - start
ProgressTotal(start, end, cl) == (IF Truthy(end) THEN end ELSE cl) - start

(***************************************************************************)
(* SpecPlan: planning and header construction on their own.                *)
(***************************************************************************)
VARIABLES p_pc, p_head, p_args, p_hdrs

PlanSizes == (0 .. MaxPlanSize)
             \cup { target_size(block_number, TenMiB) - 1,
                    target_size(block_number, TenMiB),
                    target_size(block_number, TenMiB) + 1,
                    640 * 1024 * 1024,
                    1024 * 1024 * 1024 }

pvars == <<p_pc, p_head, p_args, p_hdrs>>

\* the variables of Spec:
\*   phase         where start() is: "head", "probed", "run", "downloaded",
\*                 "saved"; "exit" after os._exit(1); "crashed" after an
\*                 exception that nothing catches
\*   size          the number of bytes of the resource on the server
\*   head_headers  self._head_headers
\*   sem           the value of self._sem (free slots)
\*   pc, attempt   per request (HeadReq and the tasks): its position and
\*                 tenacity's attempt_number
\*   held, waits   per request: the slots acquired and not released, and
\*                 the waits made between attempts
\*   args, hdr     the plan and the Range header of every task
\*   content       per task: the bytes received so far
\*   result, file, written   the sorted result, the destination's bytes and
\*                 whether save_file wrote it
\*   faults        the failures injected so far (at most MaxFaults)
\*   progress      self.progress: seg[t] and seg_total[t] are the completed
\*                 and total of task t's bar, all and all_total those of
\*                 the bar self.task_id
\*   overtaken     whether some task returned before a task of lower index
VARIABLES phase, size, head_headers, sem, pc, attempt, held, waits,
          args, hdr, content, result, file, written, faults,
          progress, overtaken

\* the variables that only Chunk, StreamEnds and StartDownload change
xvars == <<progress, overtaken>>

rvars == <<phase, size, head_headers, sem, pc, attempt, held, waits,
           args, hdr, content, result, file, written, faults, xvars>>

vars == <<pvars, rvars>>

\* the request of get_head_headers (main.py:216); the tasks are 0, 1, ...
HeadReq == -1

\* main.py:99-110  the Progress of __init__: no bar yet
NoProgress == [seg |-> << >>, seg_total |-> << >>, all |-> 0, all_total |-> 0]

\* Spec's variables while SpecPlan runs
RunOff ==
    /\ phase = "off"
    /\ size = 0
    /\ head_headers = EmptyHeaders
    /\ sem = 0
    /\ pc = << >>
    /\ attempt = << >>
    /\ held = << >>
    /\ waits = << >>
    /\ args = << >>
    /\ hdr = << >>
    /\ content = << >>
    /\ result = << >>
    /\ file = << >>
    /\ written = FALSE
    /\ faults = 0
    /\ progress = NoProgress
    /\ overtaken = FALSE

PlanInit ==
    /\ p_pc = "probed"
    /\ p_head \in [cl : PlanSizes \cup {None}, ar : AcceptValues]
    /\ p_args = << >>
    /\ p_hdrs = << >>
    /\ RunOff

\* start_download up to the creation of the tasks
PlanArgs ==
    /\ p_pc = "probed"
    /\ p_args' = Partition(content_length(p_head), accept_ranges(p_head),
                           block_number, TenMiB)
    /\ p_pc' = "planned"
    /\ UNCHANGED <<p_head, p_hdrs, rvars>>

\* the first lines of every get_content(index, s, e)
PlanHeaders ==
    /\ p_pc = "planned"
    /\ p_hdrs' = [i \in 1 .. Len(p_args) |-> RangeHeader(p_args[i].s, p_args[i].e)]
    /\ p_pc' = "requested"
    /\ UNCHANGED <<p_head, p_args, rvars>>

PlanNext == PlanArgs \/ PlanHeaders

SpecPlan == PlanInit /\ [][PlanNext]_vars


(***************************************************************************)
(* Request (request.py): the retry policy and the shared semaphore.        *)
(***************************************************************************)
\* request.py:141-142  await self.sem.acquire(): an asyncio.Semaphore whose
\* value is 0 suspends the caller
sem_never_blocks(value) == TRUE
sem_can_acquire(value) == value > 0

\* request.py:121-127 with retry_handler, request.py:101-105: what follows a
\* failed attempt number attempt_number.  "after" runs retry_handler, which
\* raises RequestException at attempt retrys_count; otherwise
\* stop_after_attempt(retrys_count) hands over to retry_error_callback (the
\* same handler, which then returns None); otherwise the wait and a retry.
iter_one_attempt_more(attempt_number) ==
    IF attempt_number = retrys_count + 1 THEN "raise" ELSE "sleep"
iter_after_failure(attempt_number) ==
    IF attempt_number = retrys_count THEN "raise"
    ELSE IF attempt_number >= retrys_count THEN "none"
    ELSE "sleep"

\* main.py:291-298  network_error_exit: os._exit(1) ends the process at once
network_error_returns(ph) == ph
network_error_exit(ph) == "exit"

(***************************************************************************)
(* The server of the download: a fixed resource of n bytes, the byte at    *)
(* offset i being i; a GET is answered with the bytes of the requested     *)
(* inclusive range that exist, or with the whole resource when the request *)
(* has no Range header (what resp.aiter_bytes delivers, main.py:277).      *)
(***************************************************************************)
Min(a, b) == IF a <= b THEN a ELSE b

Resource(n) == [i \in 1 .. n |-> i - 1]

Serve(h, n) ==
    IF h = NoRange THEN Resource(n)
    ELSE LET first == h[1]
             last == Min(h[2], n - 1)
         IN  IF first > last THEN << >>
             ELSE [i \in 1 .. (last - first + 1) |-> first + i - 1]

(***************************************************************************)
(* start_download line 209 and start line 159: sort and join.              *)
(***************************************************************************)
\* sorted(result, key=itemgetter('index')): a stable insertion of d into the
\* sorted sequence srt
RECURSIVE Insert(_, _)
Insert(d, srt) ==
    IF srt = << >> THEN <<d>>
    ELSE IF d.index < Head(srt).index THEN <<d>> \o srt
    ELSE <<Head(srt)>> \o Insert(d, Tail(srt))

sorted_descending(seq) == [i \in 1 .. Len(seq) |-> seq[Len(seq) + 1 - i]]
RECURSIVE Sorted(_)
Sorted(seq) ==
    IF seq = << >> THEN << >>
    ELSE Insert(seq[Len(seq)], Sorted(SubSeq(seq, 1, Len(seq) - 1)))

\* main.py:159  b''.join([d['content'] for d in result])
RECURSIVE Join(_)
Join(seq) == IF seq = << >> THEN << >> ELSE Head(seq).content \o Join(Tail(seq))

(***************************************************************************)
(* Spec: one run of HSDownloader.start.                                    *)
(***************************************************************************)
Reqs == DOMAIN pc
Tasks == Reqs \ {HeadReq}

\* the HEAD request runs before start_download; the tasks run until the
\* process ends
Active(r) == IF r = HeadReq THEN phase = "head" ELSE phase = "run"

Init ==
    /\ phase = "head"
    /\ size \in 0 .. MaxSize
    /\ head_headers = [cl |-> None, ar |-> "unset"]
    /\ sem = concurrency
    /\ pc = (HeadReq :> "acquire")
    /\ attempt = (HeadReq :> 1)
    /\ held = (HeadReq :> 0)
    /\ waits = (HeadReq :> 0)
    /\ args = << >>
    /\ hdr = << >>
    /\ content = << >>
    /\ result = << >>
    /\ file = << >>
    /\ written = FALSE
    /\ faults = 0
    /\ progress = NoProgress
    /\ overtaken = FALSE
    /\ p_pc = "off"
    /\ p_head = EmptyHeaders
    /\ p_args = << >>
    /\ p_hdrs = << >>

\* request.py:140-150  _request up to session.send: take a slot
Acquire(r) ==
    /\ Active(r)
    /\ pc[r] = "acquire"
    /\ sem_can_acquire(sem)
    /\ sem' = sem - 1
    /\ held' = [held EXCEPT ![r] = @ + 1]
    /\ pc' = [pc EXCEPT ![r] = "send"]
    /\ UNCHANGED <<phase, size, head_headers, attempt, waits, args, hdr,
                   content, result, file, written, pvars, faults, xvars>>

\* tenacity after a failed attempt of r, and what the caller of request()
\* does with a RequestException (main.py:219-220 for the HEAD request,
\* main.py:282-283 for a task) or with the None of retry_error_callback
Failed(r) ==
    LET d == iter_after_failure(attempt[r]) IN
    /\ pc' = [pc EXCEPT ![r] = CASE d = "sleep" -> "sleep"
                                 [] d = "raise" -> "exhausted"
                                 [] OTHER -> "raised"]
    /\ attempt' = [attempt EXCEPT ![r] = IF d = "sleep" THEN @ + 1 ELSE @]
    /\ waits' = [waits EXCEPT ![r] = IF d = "sleep" THEN @ + 1 ELSE @]
    /\ phase' = CASE d = "sleep" -> phase
                  [] d = "raise" -> IF r = HeadReq THEN "probed"
                                    ELSE network_error_exit(phase)
                  [] OTHER -> "crashed"
    /\ head_headers' = IF d = "raise" /\ r = HeadReq THEN EmptyHeaders
                       ELSE head_headers

\* request.py:150  session.send raises (transport failure, timeout): the
\* release of line 154 is not reached
SendFails(r) ==
    /\ faults < MaxFaults
    /\ faults' = faults + 1
    /\ Active(r)
    /\ pc[r] = "send"
    /\ Failed(r)
    /\ UNCHANGED <<size, sem, held, args, hdr, content, result, file,
                   written, pvars, xvars>>

\* request.py:150-158  a response whose status is not in allow_codes
SendRejected(r) ==
    /\ faults < MaxFaults
    /\ faults' = faults + 1
    /\ Active(r)
    /\ pc[r] = "send"
    /\ sem' = sem + 1
    /\ held' = [held EXCEPT ![r] = @ - 1]
    /\ Failed(r)
    /\ UNCHANGED <<size, args, hdr, content, result, file, written, pvars, xvars>>

\* request.py:128-129  the wait is over: the next attempt
Wake(r) ==
    /\ Active(r)
    /\ pc[r] = "sleep"
    /\ pc' = [pc EXCEPT ![r] = "acquire"]
    /\ UNCHANGED <<phase, size, head_headers, sem, attempt, held, waits,
                   args, hdr, content, result, file, written, pvars, faults, xvars>>

\* the headers of a successful HEAD response: the Content-Length of the
\* resource, with or without Accept-Ranges
HeadResponses == [cl : {size}, ar : {"absent", "bytes"}]

\* main.py:218-227  the HEAD request is answered with an allowed status
HeadOk ==
    /\ phase = "head"
    /\ pc[HeadReq] = "send"
    /\ sem' = sem + 1
    /\ held' = [held EXCEPT ![HeadReq] = @ - 1]
    /\ \E h \in HeadResponses : head_headers' = h
    /\ pc' = [pc EXCEPT ![HeadReq] = "done"]
    /\ phase' = "probed"
    /\ UNCHANGED <<size, attempt, waits, args, hdr, content, result, file,
                   written, pvars, faults, xvars>>

\* main.py:176-206  start_download: the plan, the bar of the whole download
\* (main.py:205), one get_content task per block (main.py:263-273: its
\* headers, its bar and its request)
StartDownload ==
    /\ phase = "probed"
    /\ LET a == Partition(content_length(head_headers),
                          accept_ranges(head_headers),
                          ModelBlocks, ModelBlockBytes)
           T == 0 .. Len(a) - 1
       IN  /\ args' = a
           /\ hdr' = [t \in T |-> RangeHeader(a[t + 1].s, a[t + 1].e)]
           /\ content' = [t \in T |-> << >>]
           /\ pc' = pc @@ [t \in T |-> "acquire"]
           /\ attempt' = attempt @@ [t \in T |-> 1]
           /\ held' = held @@ [t \in T |-> 0]
           /\ waits' = waits @@ [t \in T |-> 0]
           /\ progress' =
                 [seg |-> [t \in T |-> 0],
                  seg_total |-> [t \in T |->
                      ProgressTotal(a[t + 1].s, a[t + 1].e,
                                    content_length(head_headers))],
                  all |-> 0,
                  all_total |-> content_length(head_headers)]
    /\ phase' = "run"
    /\ UNCHANGED <<size, head_headers, sem, result, file, written, pvars, faults, overtaken>>

\* request.py:150-160 and main.py:276  a GET is answered with an allowed
\* status: the slot is released, the body is still to come
GetOk(t) ==
    /\ phase = "run"
    /\ t \in Tasks
    /\ pc[t] = "send"
    /\ sem' = sem + 1
    /\ held' = [held EXCEPT ![t] = @ - 1]
    /\ pc' = [pc EXCEPT ![t] = "stream"]
    /\ UNCHANGED <<phase, size, head_headers, attempt, waits, args, hdr,
                   content, result, file, written, pvars, faults, xvars>>

\* the bytes of t's response that have not arrived yet
Remaining(t) ==
    LET body == Serve(hdr[t], size)
    IN  SubSeq(body, Len(content[t]) + 1, Len(body))

\* main.py:277-280  one chunk of resp.aiter_bytes()
Chunk(t) ==
    /\ phase = "run"
    /\ t \in Tasks
    /\ pc[t] = "stream"
    /\ Remaining(t) # << >>
    /\ \E k \in 1 .. Len(Remaining(t)) :
          /\ content' = [content EXCEPT ![t] = @ \o SubSeq(Remaining(t), 1, k)]
          /\ progress' = [progress EXCEPT !.seg[t] = @ + k, !.all = @ + k]
    /\ UNCHANGED <<phase, size, head_headers, sem, pc, attempt, held, waits,
                   args, hdr, result, file, written, pvars, faults, overtaken>>

\* main.py:277, 285-289  the stream ends: get_content returns its dict
StreamEnds(t) ==
    /\ phase = "run"
    /\ t \in Tasks
    /\ pc[t] = "stream"
    /\ Remaining(t) = << >>
    /\ pc' = [pc EXCEPT ![t] = "done"]
    /\ overtaken' = (overtaken \/ \E u \in Tasks : u < t /\ pc[u] # "done")
    /\ UNCHANGED <<phase, size, head_headers, sem, attempt, held, waits,
                   args, hdr, content, result, file, written, pvars, faults, progress>>

\* main.py:277  resp.aiter_bytes() raises (transport failure, timeout): no
\* RequestException, so main.py:282 does not catch it; it leaves get_content,
\* asyncio.gather (main.py:206) and start
StreamFails(t) ==
    /\ faults < MaxFaults
    /\ faults' = faults + 1
    /\ phase = "run"
    /\ t \in Tasks
    /\ pc[t] = "stream"
    /\ pc' = [pc EXCEPT ![t] = "raised"]
    /\ phase' = "crashed"
    /\ UNCHANGED <<size, head_headers, sem, attempt, held, waits, args, hdr,
                   content, result, file, written, pvars, xvars>>

\* main.py:206-209  gather returns the tasks' results in task order and
\* start_download sorts them; a task that returned the None of
\* network_error_exit makes itemgetter('index') raise
Gather ==
    /\ phase = "run"
    /\ \A t \in Tasks : pc[t] \in {"done", "exhausted"}
    /\ IF \E t \in Tasks : pc[t] = "exhausted"
       THEN /\ phase' = "crashed"
            /\ result' = result
       ELSE /\ phase' = "downloaded"
            /\ result' = Sorted([i \in 1 .. Len(args) |->
                                   [index |-> i - 1, content |-> content[i - 1]]])
    /\ UNCHANGED <<size, head_headers, sem, pc, attempt, held, waits, args,
                   hdr, content, file, written, pvars, faults, xvars>>

\* main.py:159-169  save_file
SaveFile ==
    /\ phase = "downloaded"
    /\ file' = Join(result)
    /\ written' = TRUE
    /\ phase' = "saved"
    /\ UNCHANGED <<size, head_headers, sem, pc, attempt, held, waits, args,
                   hdr, content, result, pvars, faults, xvars>>

Next ==
    \/ \E r \in Reqs : Acquire(r)
    \/ \E r \in Reqs : SendFails(r)
    \/ \E r \in Reqs : SendRejected(r)
    \/ \E r \in Reqs : Wake(r)
    \/ HeadOk
    \/ StartDownload
    \/ \E t \in Tasks : GetOk(t)
    \/ \E t \in Tasks : Chunk(t)
    \/ \E t \in Tasks : StreamEnds(t)
    \/ \E t \in Tasks : StreamFails(t)
    \/ Gather
    \/ SaveFile

Spec == Init /\ [][Next]_vars

(***************************************************************************)
(* Properties of the plan (SpecPlan).                                      *)
(***************************************************************************)
Planned == p_pc \in {"planned", "requested"}

PlanLen == content_length(p_head)

PlanBlocks == 1 .. Len(p_args)

\* C1: with ranges accepted and totalSize > 0 the planned blocks are
\* contiguous and gapless: the first starts at 0, every next one starts one
\* byte after the end of the one before, and the last ends at totalSize - 1.
C1_ContiguousGapless ==
    (Planned /\ accept_ranges(p_head) /\ PlanLen > 0) =>
        /\ p_args[1].s = 0
        /\ \A i \in PlanBlocks \ {Len(p_args)} : p_args[i + 1].s = p_args[i].e + 1
        /\ p_args[Len(p_args)].e = PlanLen - 1

\* C2: with ranges accepted and totalSize > 0 every planned block is a
\* non-empty span inside the resource (start <= end < totalSize) and every
\* byte offset of the resource lies in exactly one block.
C2_ExactCover ==
    (Planned /\ accept_ranges(p_head) /\ PlanLen > 0) =>
        /\ \A i \in PlanBlocks : p_args[i].s <= p_args[i].e /\ p_args[i].e < PlanLen
        /\ \A b \in 0 .. PlanLen - 1 :
              Cardinality({i \in PlanBlocks : p_args[i].s <= b /\ b <= p_args[i].e}) = 1

\* C10: when ranges are not accepted, and when totalSize = 0, the plan is the
\* single block (index 0, start 0, end absent) and its GET has no Range
\* header.
C10_SingleUnranged ==
    (p_pc = "requested" /\ (~accept_ranges(p_head) \/ PlanLen = 0)) =>
        /\ p_args = << [index |-> 0, s |-> 0, e |-> None] >>
        /\ p_hdrs = << NoRange >>

(***************************************************************************)
(* Properties of the run (Spec).                                           *)
(***************************************************************************)
\* the requests r has put on the wire: attempt[r] counts the attempt that is
\* being made or comes next
Sent(r) == IF pc[r] \in {"acquire", "sleep"} THEN attempt[r] - 1 ELSE attempt[r]

Terminated == phase \in {"saved", "exit", "crashed"}

\* C3: when every fetch succeeded and the file is written, the file is
\* byte for byte the resource.
C3_RoundTrip == written => file = Resource(size)

\* C4: at most concurrency requesters hold a slot of the semaphore (have
\* acquired it and not released it).
C4_AdmissionBound == Cardinality({r \in Reqs : held[r] > 0}) <= concurrency

C4_Witness ==
    /\ Cardinality({t \in Tasks : pc[t] = "send"}) = concurrency
    /\ \E t \in Tasks : pc[t] = "acquire"

\* C5: once a task has used up its attempts the process has exited with a
\* failure and the destination is not written, neither then nor later (no
\* step follows the exit).
C5_ExhaustionAborts ==
    \A t \in Tasks : pc[t] = "exhausted" =>
        /\ phase = "exit"
        /\ ~written
        /\ Sent(t) = retrys_count

C5_Witness ==
    \E t, u \in Tasks : pc[t] = "exhausted" /\ pc[u] = "done" /\ content[u] # << >>

\* C6: a task never sends more than retrys_count requests; a task whose
\* first retrys_count - 1 attempts failed and whose last attempt succeeded
\* has waited exactly retrys_count - 1 times, is not exhausted, and returns
\* the bytes of its range.
C6_RetryAccounting ==
    \A t \in Tasks :
        /\ Sent(t) <= retrys_count
        /\ (pc[t] \in {"stream", "done"} /\ Sent(t) = retrys_count) =>
              waits[t] = retrys_count - 1
        /\ pc[t] = "done" => content[t] = Serve(hdr[t], size)

C6_Witness ==
    \E t \in Tasks : /\ pc[t] = "done"
                     /\ Sent(t) = retrys_count
                     /\ waits[t] = retrys_count - 1
                     /\ content[t] # << >>

\* C7 (in the form a finite run refutes): a requester that waits for a slot
\* can still be admitted, because a slot is free or a request that holds one
\* is in flight and will release it; otherwise it waits for ever and the run
\* does not terminate.
C7_NoFetcherWaitsForever ==
    \A r \in Reqs : (Active(r) /\ pc[r] = "acquire") =>
        (sem > 0 \/ \E q \in Reqs : Active(q) /\ pc[q] = "send")

\* C8: a failure of a fetch never leaves the task other than through the
\* retry loop: it is retried, or it is the exhaustion of the attempts.
C8_FailuresStayInRetryLoop == \A t \in Tasks : pc[t] # "raised"

C11_RangeHeaderExact ==
    p_pc = "requested" =>
        \A i \in PlanBlocks :
            p_hdrs[i] = IF p_args[i].e # None
                        THEN <<p_args[i].s, p_args[i].e>>
                        ELSE NoRange

BlockSpan(i) == p_args[i].e - p_args[i].s + 1

SmallRegime ==
    /\ Planned
    /\ accept_ranges(p_head)
    /\ PlanLen > 0
    /\ PlanLen <= target_size(block_number, TenMiB)

C15_EqualSmallBlocks ==
    SmallRegime =>
        /\ \A i \in 1 .. Len(p_args) - 1 :
              BlockSpan(i) = PlanLen \div block_number
        /\ p_args[Len(p_args)].e = PlanLen - 1

\* C16: a resource of exactly 640 MiB with ranges accepted is on the
\* threshold of the small regime and is cut into exactly 32 blocks that all
\* span the same number of bytes.
C16_ThresholdEqualBlocks ==
    (Planned /\ accept_ranges(p_head) /\ PlanLen = 640 * 1024 * 1024) =>
        /\ PlanLen = target_size(block_number, TenMiB)
        /\ Len(p_args) = 32
        /\ \A i, j \in PlanBlocks : BlockSpan(i) = BlockSpan(j)

\* C17: when the HEAD response has no Accept-Ranges header, or one whose
\* value is none, exactly one GET is sent and it carries no Range header.
C17_RangesOnlyWhenAccepted ==
    (p_pc = "requested" /\ p_head.ar \in {"absent", "none"}) =>
        /\ Len(p_hdrs) = 1
        /\ p_hdrs[1] = NoRange

(***************************************************************************)
(* Further properties of the run (Spec).                                   *)
(***************************************************************************)
\* a fetch is in flight from the sending of its request until the last byte
\* of its body has arrived
InFlight(t) == pc[t] = "send" \/ (pc[t] = "stream" /\ Remaining(t) # << >>)

\* C12: at most concurrency fetches are in flight at any moment.
C12_InFlightBound == Cardinality({t \in Tasks : InFlight(t)}) <= concurrency

\* C13: when all fetches succeeded, start_download returns exactly one
\* segment per block index, in ascending order of index, each with the bytes
\* its task received, whatever the order in which the tasks returned.
C13_SortedSegments ==
    phase \in {"downloaded", "saved"} =>
        /\ Len(result) = Len(args)
        /\ \A i \in 1 .. Len(result) :
              /\ result[i].index = i - 1
              /\ result[i].content = content[i - 1]

C13_Witness ==
    /\ phase = "downloaded"
    /\ overtaken
    /\ Len(result) = ModelBlocks

\* C18: the free slots and the attempts that are sending a request add up to
\* the capacity of the semaphore, whatever the outcome of the attempts that
\* are over.
C18_SlotsConserved ==
    sem + Cardinality({r \in Reqs : pc[r] = "send"}) = concurrency

\* the server sends exactly the inclusive range that t asked for
ExactlyServed(t) ==
    /\ hdr[t] # NoRange
    /\ hdr[t][1] <= hdr[t][2]
    /\ hdr[t][2] < size

RECURSIVE SegSum(_, _)
SegSum(seg, S) ==
    IF S = {} THEN 0
    ELSE LET t == CHOOSE u \in S : TRUE
         IN  seg[t] + SegSum(seg, S \ {t})

\* C19: the bytes counted for a segment whose range is served exactly never
\* exceed the total registered for its counter and equal it once the segment
\* is complete; the aggregate counter is the sum of the segments' counters
\* and never exceeds totalSize.
C19_ProgressWithinSpan ==
    phase \in {"run", "downloaded", "saved"} =>
        /\ \A t \in Tasks :
              ExactlyServed(t) =>
                  /\ progress.seg[t] <= progress.seg_total[t]
                  /\ pc[t] = "done" => progress.seg[t] = progress.seg_total[t]
        /\ progress.all = SegSum(progress.seg, Tasks)
        /\ progress.all <= progress.all_total

====
